---- MODULE Spec2Model ----
(***************************************************************************)
(* Model of src/main/cpp/blaze_util_darwin.cc: the Darwin implementation   *)
(* of the Blaze client's platform primitives.                              *)
(*                                                                         *)
(* Each function of the file is one system call followed by a few lines of *)
(* C++.  The system call is modelled by an operator that yields the set of *)
(* responses the OS can give in the current OS state (X_Sys), the C++ that  *)
(* follows it by an operator from the response to the outcome of the call  *)
(* (X_Body).  The sequential specification Spec runs whole calls as single *)
(* actions; the specification SpecConc runs the same two halves as         *)
(* separate steps of several threads.                                      *)
(***************************************************************************)
EXTENDS Integers, Sequences, FiniteSets, TLC

(***************************************************************************)
(* Bounds of the model.                                                    *)
(***************************************************************************)
\* the wall clock shows seconds 0..MaxSec since the Unix epoch
MaxSec == 1
\* and microseconds 0..MaxUsec within the second
MaxUsec == 2
\* microseconds of real time the model lets pass after process start
MaxElapsed == 2
\* length of the stem put in front of each file name ending
MaxPrefixLen == 1
\* number of threads of SpecConc
NumThreads == 2

(***************************************************************************)
(* Values.                                                                 *)
(***************************************************************************)
\* the NUL character of a zero-initialised char array
NUL == "\\0"

\* sizeof(struct proc_vnodepathinfo) on Darwin: two vnode_info_path records
SizeofInfo == 2352

\* the empty std::string
EmptyString == <<>>

\* struct timeval ts = {}
ZeroTimeval == [tv_sec |-> 0, tv_usec |-> 0]

\* A system call's response: its return value and what it left in the
\* out-parameters of the call.
NoResp == [rc |-> 0, pid |-> 0, buf |-> <<>>, tv |-> ZeroTimeval]

\* The outcome of a call: it returned a value, or it ended the program.
NoOutcome == [kind |-> "none", code |-> "", ival |-> 0, sval |-> <<>>, bval |-> FALSE]

ReturnInt(v) == [NoOutcome EXCEPT !.kind = "return", !.ival = v]

ReturnString(s) == [NoOutcome EXCEPT !.kind = "return", !.sval = s]

ReturnBool(b) == [NoOutcome EXCEPT !.kind = "return", !.bval = b]

ReturnVoid == [NoOutcome EXCEPT !.kind = "return"]

\* pdie(exit_code, message): prints the message and exits with exit_code.
pdie(exit_code) == [NoOutcome EXCEPT !.kind = "die", !.code = exit_code]

\* The arguments of a call.
NoArgs == [socket |-> 0, pid |-> 0, batch |-> FALSE, level |-> 0, str |-> <<>>]

\* The record of a call: the function, its arguments, the number of system
\* calls it made, the time of day when it made them, the OS response it got,
\* its outcome, and what the MonotonicClock call before it returned.
NoCall == [op |-> "none", args |-> NoArgs, nsys |-> 0, at |-> ZeroTimeval,
           resp |-> NoResp, out |-> NoOutcome, prevMono |-> -1]

(***************************************************************************)
(* State.                                                                  *)
(***************************************************************************)
VARIABLES
  wallSec,      \* the system's time of day, seconds: what gettimeofday reads
  wallUsec,     \* and its microseconds
  elapsedUsec,  \* microseconds of real time passed since the process started
  sched,        \* the scheduling class of the process
  stderrLines,  \* number of lines the program has written to stderr
  exited,       \* "running", or the exit code the program ended with
  last,         \* Spec: the record of the latest call
  lastMono,     \* Spec: what the latest returned MonotonicClock call returned
  calls,        \* SpecConc: per thread, the call it is in
  locals        \* SpecConc: per stack frame, the automatic variables in it

osVars == <<wallSec, wallUsec, elapsedUsec, sched>>

seqVars == <<last, lastMono>>

concVars == <<calls, locals>>

vars == <<wallSec, wallUsec, elapsedUsec, sched, stderrLines, exited, last,
          lastMono, calls, locals>>

(***************************************************************************)
(* The operating system, as far as the calls of the file see it.           *)
(***************************************************************************)
\* descriptors of connected local (AF_UNIX) sockets and the process at the
\* other end of each
PeerPid == (3 :> 4242) @@ (4 :> 17)

\* the descriptors handed to GetPeerProcessId: -1 is no descriptor, 0 is an
\* open descriptor that is no local socket
Sockets == {-1, 0} \cup DOMAIN PeerPid

\* the live processes and the current working directory of each
Cwd == (17 :> <<"/">>) @@ (4242 :> <<"/", "w">>)

\* the process ids handed to GetProcessCWD: 9999 names no process
Pids == {-1, 9999} \cup DOMAIN Cwd

\* the path of the running executable
SelfExe == <<"/", "b", "z">>

\* getsockopt(socket, SOL_LOCAL, LOCAL_PEERPID, &pid, &len) with pid holding
\* pid0: 0 and the peer's pid in pid, or -1 and pid untouched.  The query
\* can fail on a connected socket too.
getsockopt(socket, pid0) ==
  {[NoResp EXCEPT !.rc = -1, !.pid = pid0]}
    \cup (IF socket \in DOMAIN PeerPid
          THEN {[NoResp EXCEPT !.rc = 0, !.pid = PeerPid[socket]]}
          ELSE {})

\* proc_pidpath(getpid(), pathbuf, sizeof(pathbuf)): the length of the path,
\* written to pathbuf, or 0 on failure.
proc_pidpath ==
  {[NoResp EXCEPT !.rc = Len(SelfExe), !.buf = SelfExe], [NoResp EXCEPT !.rc = 0]}

\* gettimeofday(&ts, NULL): 0 and the time of day in ts, or -1 and ts
\* untouched.
gettimeofday(ts0) ==
  {[NoResp EXCEPT !.rc = 0, !.tv = [tv_sec |-> wallSec, tv_usec |-> wallUsec]],
   [NoResp EXCEPT !.rc = -1, !.tv = ts0]}

\* proc_pidinfo(pid, PROC_PIDVNODEPATHINFO, 0, &info, sizeof(info)): the
\* number of bytes written to info.  buf is info.pvi_cdir.vip_path.  A live
\* process yields the whole record, nothing, or pvi_cdir alone.
proc_pidinfo(pid) ==
  {[NoResp EXCEPT !.rc = 0]}
    \cup (IF pid \in DOMAIN Cwd
          THEN {[NoResp EXCEPT !.rc = SizeofInfo, !.buf = Cwd[pid]],
                [NoResp EXCEPT !.rc = SizeofInfo \div 2, !.buf = Cwd[pid]]}
          ELSE {})

(***************************************************************************)
(* Strings.                                                                *)
(***************************************************************************)
\* element i of a zero-initialised char array that holds the characters buf
CharAt(buf, i) == IF i <= Len(buf) THEN buf[i] ELSE NUL

\* std::string(const char* s, size_t n): the first n characters of s
StringN(buf, n) == [i \in 1..n |-> CharAt(buf, i)]

\* strlen
Strlen(buf) ==
  IF \E i \in 1..Len(buf) : buf[i] = NUL
  THEN (CHOOSE i \in 1..Len(buf) :
          /\ buf[i] = NUL
          /\ \A j \in 1..(i - 1) : buf[j] # NUL) - 1
  ELSE Len(buf)

\* std::string(const char* s): the characters of s up to its first NUL
StringZ(buf) == StringN(buf, Strlen(buf))

\* blaze_util::ends_with(s, suffix)
ends_with(s, suffix) ==
  /\ Len(s) >= Len(suffix)
  /\ SubSeq(s, Len(s) - Len(suffix) + 1, Len(s)) = suffix

(***************************************************************************)
(* The functions of blaze_util_darwin.cc: the system call each makes       *)
(* (X_Sys: the responses the OS can give now) and the code after it        *)
(* (X_Body: from the response to the outcome).                             *)
(***************************************************************************)
\* pid_t pid = 0; getsockopt(socket, SOL_LOCAL, LOCAL_PEERPID, &pid, &len)
GetPeerProcessId_Sys(args) == getsockopt(args.socket, 0)

\* Mutant: the failure of the query is not checked.
GetPeerProcessId_Body_Unchecked(resp) == ReturnInt(resp.pid)

\* Mutant: the status of the query is returned in place of the pid.
GetPeerProcessId_Body_Status(resp) ==
  IF resp.rc < 0
  THEN pdie("LOCAL_ENVIRONMENTAL_ERROR")
  ELSE ReturnInt(resp.rc)

\* if (... < 0) pdie(LOCAL_ENVIRONMENTAL_ERROR, ...); return pid;
GetPeerProcessId_Body(resp) ==
  IF resp.rc < 0
  THEN pdie("LOCAL_ENVIRONMENTAL_ERROR")
  ELSE ReturnInt(resp.pid)

\* char pathbuf[PROC_PIDPATHINFO_MAXSIZE] = {}; int len = proc_pidpath(...)
GetSelfPath_Sys(args) == proc_pidpath

\* Mutant: the failure test is len < 0, which proc_pidpath never yields.
GetSelfPath_Body_Negative(resp) ==
  IF resp.rc < 0
  THEN pdie("INTERNAL_ERROR")
  ELSE ReturnString(StringN(resp.buf, resp.rc))

\* if (len == 0) pdie(INTERNAL_ERROR, ...); return string(pathbuf, len);
GetSelfPath_Body(resp) ==
  IF resp.rc = 0
  THEN pdie("INTERNAL_ERROR")
  ELSE ReturnString(StringN(resp.buf, resp.rc))

\* struct timeval ts = {}; gettimeofday(&ts, NULL)
MonotonicClock_Sys(args) == gettimeofday(ZeroTimeval)

\* if (... < 0) pdie(INTERNAL_ERROR, ...);
\* return ts.tv_sec * 1000000000LL + ts.tv_usec * 1000;
MonotonicClock_Body(resp) ==
  IF resp.rc < 0
  THEN pdie("INTERNAL_ERROR")
  ELSE ReturnInt(resp.tv.tv_sec * 1000000000 + resp.tv.tv_usec * 1000)

\* Mutant: the value is scaled to microseconds.
ProcessClock_Body_Micros(resp) ==
  IF resp.rc < 0
  THEN pdie("INTERNAL_ERROR")
  ELSE ReturnInt(resp.tv.tv_sec * 1000000 + resp.tv.tv_usec)

\* return MonotonicClock();
ProcessClock_Sys(args) == MonotonicClock_Sys(args)

ProcessClock_Body(resp) == MonotonicClock_Body(resp)

\* struct proc_vnodepathinfo info = {}; proc_pidinfo(pid, ..., &info, ...)
GetProcessCWD_Sys(args) == proc_pidinfo(args.pid)

\* Mutant: only a count of 0 is taken for a failure.
GetProcessCWD_Body_AnyCount(resp) ==
  IF resp.rc <= 0
  THEN ReturnString(EmptyString)
  ELSE ReturnString(StringZ(resp.buf))

\* if (... != sizeof(info)) return ""; return string(info.pvi_cdir.vip_path);
GetProcessCWD_Body(resp) ==
  IF resp.rc # SizeofInfo
  THEN ReturnString(EmptyString)
  ELSE ReturnString(StringZ(resp.buf))

\* Mutant: the suffix of another platform.
IsSharedLibrary_Body_So(filename) ==
  ReturnBool(ends_with(filename, <<".", "s", "o">>))

\* return blaze_util::ends_with(filename, ".dylib");
IsSharedLibrary_Body(filename) ==
  ReturnBool(ends_with(filename, <<".", "d", "y", "l", "i", "b">>))

\* the empty bodies of WarnFilesystemType and SetScheduling
WarnFilesystemType_Body(output_base) == ReturnVoid

SetScheduling_Body(batch_cpu_scheduling, io_nice_level) == ReturnVoid

(***************************************************************************)
(* Inputs.                                                                 *)
(***************************************************************************)
\* io_nice_level: -1 asks for no change, 0..7 are the levels, 8 is none
IoNiceLevels == {-1, 0, 7, 8}

\* output_base
OutputBases == {<<>>, <<"/", "o">>}

RECURSIVE SeqsUpTo(_, _)
\* the sequences over S of length 0..n
SeqsUpTo(S, n) ==
  IF n = 0
  THEN {<<>>}
  ELSE LET shorter == SeqsUpTo(S, n - 1)
       IN shorter \cup {Append(s, c) : s \in shorter, c \in S}

\* the endings of the file names tried
Endings ==
  { <<>>,
    <<".", "d", "y", "l", "i", "b">>,
    <<".", "s", "o">>,
    <<".", "d", "l", "l">>,
    <<".", "t", "x", "t">>,
    <<"d", "y", "l", "i", "b">>,
    <<".", "d", "y", "l", "i">>,
    <<".", "d", "y", "l", "i", "b", ".">>,
    <<".", "D", "Y", "L", "I", "B">>,
    <<".", "d", "y", "l", "i", "b", ".", "d", "y", "l", "i", "b">> }

\* the file names handed to IsSharedLibrary
Filenames ==
  {p \o e : p \in SeqsUpTo({"f", "."}, MaxPrefixLen) \cup {<<"f", "o", "o">>},
            e \in Endings}

(***************************************************************************)
(* Spec: one thread calls the functions one after the other while time     *)
(* passes and the time of day is set.                                      *)
(***************************************************************************)
Running == exited = "running"

\* The call of op with args made nsys system calls, got resp and ended as
\* out: a call that dies writes its message and ends the program with its
\* exit code.
Complete(op, args, nsys, resp, out) ==
  /\ last' = [op |-> op, args |-> args, nsys |-> nsys,
              at |-> IF op \in {"MonotonicClock", "ProcessClock"}
                     THEN [tv_sec |-> wallSec, tv_usec |-> wallUsec]
                     ELSE ZeroTimeval,
              resp |-> resp, out |-> out,
              prevMono |-> IF op = "MonotonicClock" THEN lastMono ELSE -1]
  /\ lastMono' = IF op = "MonotonicClock" /\ out.kind = "return"
                 THEN out.ival
                 ELSE lastMono
  /\ exited' = IF out.kind = "die" THEN out.code ELSE exited
  /\ stderrLines' = IF out.kind = "die" THEN stderrLines + 1 ELSE stderrLines
  /\ UNCHANGED concVars

WarnFilesystemType(output_base) ==
  /\ Running
  /\ Complete("WarnFilesystemType", [NoArgs EXCEPT !.str = output_base], 0, NoResp,
              WarnFilesystemType_Body(output_base))
  /\ UNCHANGED osVars

GetPeerProcessId(socket) ==
  /\ Running
  /\ LET args == [NoArgs EXCEPT !.socket = socket]
     IN \E resp \in GetPeerProcessId_Sys(args) :
          Complete("GetPeerProcessId", args, 1, resp, GetPeerProcessId_Body(resp))
  /\ UNCHANGED osVars

GetSelfPath ==
  /\ Running
  /\ \E resp \in GetSelfPath_Sys(NoArgs) :
       Complete("GetSelfPath", NoArgs, 1, resp, GetSelfPath_Body(resp))
  /\ UNCHANGED osVars

MonotonicClock ==
  /\ Running
  /\ \E resp \in MonotonicClock_Sys(NoArgs) :
       Complete("MonotonicClock", NoArgs, 1, resp, MonotonicClock_Body(resp))
  /\ UNCHANGED osVars

ProcessClock ==
  /\ Running
  /\ \E resp \in ProcessClock_Sys(NoArgs) :
       Complete("ProcessClock", NoArgs, 1, resp, ProcessClock_Body(resp))
  /\ UNCHANGED osVars

\* Mutant: the batch flag moves the process to the batch class, as on OSes
\* that have one.
SetScheduling_Batch(batch_cpu_scheduling, io_nice_level) ==
  /\ Running
  /\ Complete("SetScheduling",
              [NoArgs EXCEPT !.batch = batch_cpu_scheduling, !.level = io_nice_level],
              0, NoResp, SetScheduling_Body(batch_cpu_scheduling, io_nice_level))
  /\ sched' = IF batch_cpu_scheduling THEN "batch" ELSE sched
  /\ UNCHANGED <<wallSec, wallUsec, elapsedUsec>>

SetScheduling(batch_cpu_scheduling, io_nice_level) ==
  /\ Running
  /\ Complete("SetScheduling",
              [NoArgs EXCEPT !.batch = batch_cpu_scheduling, !.level = io_nice_level],
              0, NoResp, SetScheduling_Body(batch_cpu_scheduling, io_nice_level))
  /\ UNCHANGED osVars

GetProcessCWD(pid) ==
  /\ Running
  /\ LET args == [NoArgs EXCEPT !.pid = pid]
     IN \E resp \in GetProcessCWD_Sys(args) :
          Complete("GetProcessCWD", args, 1, resp, GetProcessCWD_Body(resp))
  /\ UNCHANGED osVars

IsSharedLibrary(filename) ==
  /\ Running
  /\ Complete("IsSharedLibrary", [NoArgs EXCEPT !.str = filename], 0, NoResp,
              IsSharedLibrary_Body(filename))
  /\ UNCHANGED osVars

\* A microsecond passes.
Tick ==
  /\ Running
  /\ wallUsec < MaxUsec
  /\ elapsedUsec < MaxElapsed
  /\ wallUsec' = wallUsec + 1
  /\ elapsedUsec' = elapsedUsec + 1
  /\ UNCHANGED <<wallSec, sched, stderrLines, exited, last, lastMono, calls, locals>>

\* The time of day is set (settimeofday, NTP), forward or backward.
AdjustTime(sec, usec) ==
  /\ Running
  /\ <<sec, usec>> # <<wallSec, wallUsec>>
  /\ wallSec' = sec
  /\ wallUsec' = usec
  /\ UNCHANGED <<elapsedUsec, sched, stderrLines, exited, last, lastMono, calls, locals>>

Init ==
  /\ wallSec \in 0..MaxSec
  /\ wallUsec \in 0..MaxUsec
  /\ elapsedUsec = 0
  /\ sched = "default"
  /\ stderrLines = 0
  /\ exited = "running"
  /\ last = NoCall
  /\ lastMono = -1
  /\ calls = <<>>
  /\ locals = <<>>

Next ==
  \/ \E output_base \in OutputBases : WarnFilesystemType(output_base)
  \/ \E socket \in Sockets : GetPeerProcessId(socket)
  \/ GetSelfPath
  \/ MonotonicClock
  \/ ProcessClock
  \/ \E b \in BOOLEAN, n \in IoNiceLevels : SetScheduling(b, n)
  \/ \E pid \in Pids : GetProcessCWD(pid)
  \/ \E filename \in Filenames : IsSharedLibrary(filename)
  \/ Tick
  \/ \E sec \in 0..MaxSec, usec \in 0..MaxUsec : AdjustTime(sec, usec)

Spec == Init /\ [][Next]_vars

(***************************************************************************)
(* SpecConc: several threads call the functions with no coordination.  A   *)
(* call is two steps, the system call and the code after it; between the   *)
(* two the call's parameters and automatic variables sit in its stack      *)
(* frame, other threads run and time passes.                               *)
(***************************************************************************)
Threads == 1..NumThreads

\* Mutant: the variables are static, one copy for all threads.
FrameOf_Static(t) == 1

\* The parameters and the automatic variables (pid, pathbuf, ts, info) of a
\* call live in the stack frame of the thread that makes it.
FrameOf(t) == t

Frames == {FrameOf(t) : t \in Threads}

NoFrame == [args |-> NoArgs, resp |-> NoResp]

Idle == [phase |-> "idle", op |-> "none", args |-> NoArgs, resp |-> NoResp,
         out |-> NoOutcome]

\* the system call of each function
SysOf(op, args) ==
  CASE op = "GetPeerProcessId" -> GetPeerProcessId_Sys(args)
    [] op = "GetSelfPath" -> GetSelfPath_Sys(args)
    [] op = "MonotonicClock" -> MonotonicClock_Sys(args)
    [] op = "ProcessClock" -> ProcessClock_Sys(args)
    [] op = "GetProcessCWD" -> GetProcessCWD_Sys(args)
    [] OTHER -> {NoResp}

\* the code of each function after its system call
BodyOf(op, args, resp) ==
  CASE op = "WarnFilesystemType" -> WarnFilesystemType_Body(args.str)
    [] op = "GetPeerProcessId" -> GetPeerProcessId_Body(resp)
    [] op = "GetSelfPath" -> GetSelfPath_Body(resp)
    [] op = "MonotonicClock" -> MonotonicClock_Body(resp)
    [] op = "ProcessClock" -> ProcessClock_Body(resp)
    [] op = "SetScheduling" -> SetScheduling_Body(args.batch, args.level)
    [] op = "GetProcessCWD" -> GetProcessCWD_Body(resp)
    [] op = "IsSharedLibrary" -> IsSharedLibrary_Body(args.str)

\* the calls the threads make
ConcCalls ==
  {<<"WarnFilesystemType", [NoArgs EXCEPT !.str = <<"/", "o">>]>>,
   <<"GetSelfPath", NoArgs>>,
   <<"MonotonicClock", NoArgs>>,
   <<"ProcessClock", NoArgs>>}
    \cup {<<"GetPeerProcessId", [NoArgs EXCEPT !.socket = s]>> : s \in {-1, 3, 4}}
    \cup {<<"SetScheduling", [NoArgs EXCEPT !.batch = b, !.level = 7]>> : b \in BOOLEAN}
    \cup {<<"GetProcessCWD", [NoArgs EXCEPT !.pid = p]>> : p \in {9999, 4242}}
    \cup {<<"IsSharedLibrary", [NoArgs EXCEPT !.str = f]>> :
            f \in {<<"a", ".", "d", "y", "l", "i", "b">>, <<"a", ".", "s", "o">>}}

\* Thread t enters op: the parameters and the zero-initialised variables go
\* to its frame and the system call writes its response there.
Call(t, op, args) ==
  /\ Running
  /\ calls[t].phase \in {"idle", "done"}
  /\ \E resp \in SysOf(op, args) :
       /\ calls' = [calls EXCEPT ![t] = [phase |-> "insys", op |-> op, args |-> args,
                                         resp |-> resp, out |-> NoOutcome]]
       /\ locals' = [locals EXCEPT ![FrameOf(t)] = [args |-> args, resp |-> resp]]
  /\ UNCHANGED <<osVars, stderrLines, exited, seqVars>>

\* Thread t runs the rest of the function on what its frame holds, and the
\* frame is popped; a call that dies ends the program for all threads.
Return(t) ==
  /\ Running
  /\ calls[t].phase = "insys"
  /\ LET frame == locals[FrameOf(t)]
         out == BodyOf(calls[t].op, frame.args, frame.resp)
     IN /\ calls' = [calls EXCEPT ![t].phase = "done", ![t].out = out]
        /\ exited' = IF out.kind = "die" THEN out.code ELSE exited
        /\ stderrLines' = IF out.kind = "die" THEN stderrLines + 1 ELSE stderrLines
  /\ locals' = [locals EXCEPT ![FrameOf(t)] = NoFrame]
  /\ UNCHANGED <<osVars, seqVars>>

InitConc ==
  /\ wallSec = MaxSec
  /\ wallUsec = 0
  /\ elapsedUsec = 0
  /\ sched = "default"
  /\ stderrLines = 0
  /\ exited = "running"
  /\ last = NoCall
  /\ lastMono = -1
  /\ calls = [t \in Threads |-> Idle]
  /\ locals = [f \in Frames |-> NoFrame]

NextConc ==
  \/ \E t \in Threads, c \in ConcCalls : Call(t, c[1], c[2])
  \/ \E t \in Threads : Return(t)
  \/ Tick

SpecConc == InitConc /\ [][NextConc]_vars

Returned(c) == c.out.kind = "return"

Died(c, code) == c.out.kind = "die" /\ c.out.code = code /\ exited = code

(***************************************************************************)
(* Properties of SpecConc.                                                 *)
(***************************************************************************)
\* C8: under every interleaving, a call's frame holds what that call put
\* there and nothing of another call's, and what the call returns (or the
\* exit code it dies with) is what the function run alone yields on the
\* response the OS gave to its own system call.
C8_CallsAreIndependent ==
  \A t \in Threads :
    /\ calls[t].phase = "insys"
         => locals[FrameOf(t)] = [args |-> calls[t].args, resp |-> calls[t].resp]
    /\ calls[t].phase = "done"
         => calls[t].out = BodyOf(calls[t].op, calls[t].args, calls[t].resp)

\* two MonotonicClock calls overlap: thread 1 has read the clock and not yet
\* returned, thread 2 read it later and has returned already
C8_Witness ==
  /\ calls[1].phase = "insys"
  /\ calls[1].op = "MonotonicClock"
  /\ calls[1].resp.rc = 0
  /\ calls[2].phase = "done"
  /\ calls[2].op = "MonotonicClock"
  /\ Returned(calls[2])
  /\ calls[2].out.ival >
       calls[1].resp.tv.tv_sec * 1000000000 + calls[1].resp.tv.tv_usec * 1000

(***************************************************************************)
(* Properties of Spec.                                                     *)
(***************************************************************************)
\* C1: of two MonotonicClock calls made one after the other, the later
\* returns a value greater than or equal to the earlier's, also when the
\* time of day was set back between them.
C1_MonotonicClockNeverDecreases ==
  (last.op = "MonotonicClock" /\ Returned(last) /\ last.prevMono # -1)
    => last.prevMono <= last.out.ival

\* C2: when getsockopt returns a negative value, GetPeerProcessId ends the
\* program with LOCAL_ENVIRONMENTAL_ERROR, returns no pid, and has made the
\* query once.
C2_PeerQueryFailureIsFatal ==
  (last.op = "GetPeerProcessId" /\ last.resp.rc < 0)
    => /\ Died(last, "LOCAL_ENVIRONMENTAL_ERROR")
       /\ ~Returned(last)
       /\ last.nsys = 1

C2_Witness ==
  /\ last.op = "GetPeerProcessId"
  /\ last.args.socket \in DOMAIN PeerPid
  /\ last.resp.rc < 0
  /\ exited = "LOCAL_ENVIRONMENTAL_ERROR"

\* C3: on a connected local socket, whenever GetPeerProcessId returns, it
\* returns the pid of the process at the other end, which is positive and
\* so never the 0 that pid was initialised to.
C3_PeerPidIsThePeer ==
  (last.op = "GetPeerProcessId" /\ last.args.socket \in DOMAIN PeerPid
     /\ Returned(last))
    => /\ last.out.ival > 0
       /\ last.out.ival = PeerPid[last.args.socket]

C3_Witness ==
  /\ last.op = "GetPeerProcessId"
  /\ last.args.socket = 3
  /\ Returned(last)
  /\ last.out.ival = 4242

\* C4: when proc_pidpath fails, GetSelfPath ends the program with
\* INTERNAL_ERROR, and a GetSelfPath that returns never returns the empty
\* path; when gettimeofday fails, MonotonicClock ends the program with
\* INTERNAL_ERROR and returns no timestamp.
C4_MustSucceedCallsAreFatal ==
  /\ (last.op = "GetSelfPath" /\ last.resp.rc = 0)
       => Died(last, "INTERNAL_ERROR") /\ ~Returned(last)
  /\ (last.op = "GetSelfPath" /\ Returned(last))
       => last.out.sval # EmptyString /\ last.out.sval = SelfExe
  /\ (last.op = "MonotonicClock" /\ last.resp.rc < 0)
       => Died(last, "INTERNAL_ERROR") /\ ~Returned(last)

C4_Witness ==
  /\ last.op = "GetSelfPath"
  /\ last.resp.rc = 0
  /\ exited = "INTERNAL_ERROR"

\* C5: GetProcessCWD always returns and never ends the program: the empty
\* string when proc_pidinfo did not yield the whole record (as for a pid
\* that names no process), else the working directory the OS reported.
C5_ProcessCwdNeverFails ==
  last.op = "GetProcessCWD"
    => /\ Returned(last)
       /\ exited = "running"
       /\ last.resp.rc # SizeofInfo => last.out.sval = EmptyString
       /\ last.resp.rc = SizeofInfo => last.out.sval = Cwd[last.args.pid]
       /\ last.args.pid \notin DOMAIN Cwd => last.out.sval = EmptyString

C5_Witness ==
  /\ last.op = "GetProcessCWD"
  /\ last.args.pid = 4242
  /\ last.resp.rc = SizeofInfo \div 2
  /\ last.out.sval = EmptyString

\* C6: what ProcessClock returns exceeds the real time passed since the
\* process started by no more than a scheduling jitter, taken here as one
\* millisecond.
C6_ProcessClockWithinElapsed ==
  (last.op = "ProcessClock" /\ Returned(last))
    => last.out.ival <= elapsedUsec * 1000 + 1000000

\* the test the claim C7 states, spelt out character by character
EndsInDotDylib(s) ==
  /\ Len(s) >= 6
  /\ s[Len(s) - 5] = "."
  /\ s[Len(s) - 4] = "d"
  /\ s[Len(s) - 3] = "y"
  /\ s[Len(s) - 2] = "l"
  /\ s[Len(s) - 1] = "i"
  /\ s[Len(s)] = "b"

\* C7: IsSharedLibrary returns true exactly for the file names that end in
\* ".dylib", and never fails.
C7_SharedLibraryIffDylib ==
  last.op = "IsSharedLibrary"
    => /\ Returned(last)
       /\ exited = "running"
       /\ last.out.bval <=> EndsInDotDylib(last.args.str)

C7_Witness ==
  /\ last.op = "IsSharedLibrary"
  /\ last.args.str = <<"f", "o", "o", ".", "d", "y", "l", "i", "b">>
  /\ last.out.bval

\* C9: a SetScheduling or WarnFilesystemType call, whatever its arguments,
\* returns, does not end the program, writes nothing, and leaves the
\* scheduling class and the rest of the OS state as they were.
C9_SchedulingAndWarningAreNoOps ==
  [][(last' # last /\ last'.op \in {"SetScheduling", "WarnFilesystemType"})
       => /\ Returned(last')
          /\ UNCHANGED <<osVars, stderrLines, exited>>]_vars

C9_Witness ==
  /\ last.op = "SetScheduling"
  /\ last.args.batch
  /\ last.args.level = -1
  /\ Returned(last)
  /\ sched = "default"

\* C10: ProcessClock returns what MonotonicClock returns for the same time
\* of day, seconds * 1,000,000,000 + microseconds * 1,000, and ends the
\* program with INTERNAL_ERROR exactly when MonotonicClock does.
C10_ProcessClockIsMonotonicClock ==
  last.op = "ProcessClock"
    => /\ last.out = MonotonicClock_Body(last.resp)
       /\ last.resp.rc < 0 <=> Died(last, "INTERNAL_ERROR")
       /\ last.resp.rc >= 0
            => /\ Returned(last)
               /\ last.out.ival =
                    last.at.tv_sec * 1000000000 + last.at.tv_usec * 1000

C10_Witness ==
  /\ last.op = "ProcessClock"
  /\ Returned(last)
  /\ last.at = [tv_sec |-> 1, tv_usec |-> 2]
  /\ last.out.ival = 1000002000

====
